---- MODULE Spec2Model ----
(***************************************************************************)
(* Model of ChromaDBManager (src/main.py): one SQLite table file_metadata   *)
(* and the detection pass check_for_new_files over a directory tree.        *)
(*                                                                          *)
(* The durable state is the table (store) and SQLite's AUTOINCREMENT        *)
(* counter (seq, the sqlite_sequence row of the table).  A detection pass   *)
(* is a sequential process whose position is pc:                            *)
(*   idle -> walk -> (update ->)* done | aborted | failed | killed -> idle  *)
(* The column upload_date (DEFAULT CURRENT_TIMESTAMP) is not modelled: it   *)
(* depends on the wall clock only and no code path of main.py reads it.     *)
(***************************************************************************)
EXTENDS Integers, Sequences, FiniteSets, TLC

\* ------------------------------------------------------------------ bounds
\* Largest rowid the model lets the table hand out.
MaxId == 4
\* Modification times of files range over 1..MaxMtime.
MaxMtime == 2

\* ------------------------------------------------------- the file system
\* Paths as os.walk/os.path.join build them: sequences of components.
Paths == { <<"data", "a.txt">>, <<"data", "b.txt">>, <<"data", "sub", "a.txt">> }

\* File contents (byte strings): the empty file and a one-byte file.
Contents == { <<>>, <<0>> }

\* hashlib.sha256(content).hexdigest(), abbreviated to the first four hex
\* digits of the real digests of b"" and b"\x00".
calculate_checksum(content) ==
    CASE content = <<>>  -> "e3b0"
      [] content = <<0>> -> "6e34"

\* os.path.getsize
getsize(content) == Len(content)

\* os.path.basename
basename(path) == path[Len(path)]

\* datetime.fromtimestamp(os.path.getmtime(p)): a naive datetime.
fromtimestamp(mtime) == [t |-> mtime, tzinfo |-> "None"]

\* last_modified.replace(tzinfo=timezone.utc) when tzinfo is None.
EnsureAware(dt) == IF dt.tzinfo = "None" THEN [dt EXCEPT !.tzinfo = "UTC"] ELSE dt

Absent      == [kind |-> "absent",     content |-> <<>>, mtime |-> 0]
\* An entry os.walk lists among `files` for which os.path.isfile is False
\* (FIFO, socket, broken symlink).
NonRegular  == [kind |-> "nonregular", content |-> <<>>, mtime |-> 0]
\* A regular file whose open() raises (PermissionError).
Unreadable  == [kind |-> "unreadable", content |-> <<>>, mtime |-> 0]
Regular(c, m) == [kind |-> "file", content |-> c, mtime |-> m]

Entries == {Absent, NonRegular, Unreadable}
             \cup { Regular(c, m) : c \in Contents, m \in 1..MaxMtime }

NoChange == [op |-> "none", path |-> <<>>, to |-> <<>>, old |-> <<>>]

VARIABLES
    dir,        \* the directory tree: Paths -> Entries
    store,      \* committed rows of file_metadata
    seq,        \* committed sqlite_sequence value of file_metadata
    pc,         \* position of the running process
    tracked,    \* check_for_new_files: tracked_files
    new_files,  \* check_for_new_files: new_files
    todo,       \* entries os.walk has listed and the loop has not visited yet
    txn,        \* uncommitted state of the connection of _update_file_metadata
    idx,        \* next element of the batch _update_file_metadata executes
    pre,        \* history: store and seq when the current pass started
    batch,      \* history: the argument of _update_file_metadata in this pass
    writes,     \* history: calls of _update_file_metadata in this pass
    idLog,      \* history: rowids of all committed INSERTs, in order
    txnLog,     \* history: rowids handed out in the open transaction
    change      \* history: what happened to dir since the last completed pass

vars == <<dir, store, seq, pc, tracked, new_files, todo, txn, idx,
          pre, batch, writes, idLog, txnLog, change>>

passVars == <<tracked, new_files, todo, txn, idx, pre, batch, writes, txnLog>>

\* ----------------------------------------------------------- Metadata Store
MaxOf(S) == IF S = {} THEN 0 ELSE CHOOSE x \in S : \A y \in S : y <= x

\* Variant: the smallest rowid no present row uses (freed rowids come back).
NextRowIdReuse(rows, s) ==
    CHOOSE i \in 1..(Cardinality(rows) + 1) : /\ \A r \in rows : r.id # i
                                             /\ \A j \in 1..(i - 1) : \E r \in rows : r.id = j

\* INTEGER PRIMARY KEY AUTOINCREMENT: one more than the largest rowid that
\* ever existed in the table (sqlite_sequence), not the largest present one.
NextRowId(rows, s) == MaxOf({s} \cup { r.id : r \in rows }) + 1

\* The row one INSERT of _update_file_metadata writes for a batch element.
RowOf(rec, id) ==
    [ id            |-> id,
      filename      |-> basename(rec.path),
      path          |-> rec.path,
      file_size     |-> rec.file_size,
      checksum      |-> rec.checksum,
      last_modified |-> EnsureAware(rec.last_modified) ]

\* Variant: checksum is not declared UNIQUE.
ConflictingNoUnique(rows, rec, id) == { r \in rows : r.id = id }

\* Variant: the table is keyed by path instead of checksum.
ConflictingByPath(rows, rec, id) ==
    { r \in rows : r.path = rec.path \/ r.id = id }

\* The rows INSERT OR REPLACE deletes before inserting: those that collide
\* with the new row on a UNIQUE column (checksum) or on the primary key.
Conflicting(rows, rec, id) ==
    { r \in rows : r.checksum = rec.checksum \/ r.id = id }

\* One cursor.execute("INSERT OR REPLACE ...") on the state t of a connection.
UpsertOne(t, rec) ==
    LET id == NextRowId(t.rows, t.seq)
    IN  [ rows |-> (t.rows \ Conflicting(t.rows, rec, id)) \cup {RowOf(rec, id)},
          seq  |-> id ]

\* The whole loop of _update_file_metadata.
RECURSIVE UpsertAll(_, _)
UpsertAll(t, recs) ==
    IF recs = <<>> THEN t ELSE UpsertAll(UpsertOne(t, Head(recs)), Tail(recs))

\* Variant: the connection is in autocommit mode (isolation_level=None).
AfterExecuteAutocommit(committed, working) == working

\* What is durable after an execute that has not been committed: sqlite3's
\* default isolation level opens a transaction before the first INSERT, so
\* the committed table is not touched until conn.commit().
AfterExecute(committed, working) == committed

\* get_tracked_files: SELECT path, checksum FROM file_metadata, as a set.
get_tracked_files(rows) == { <<r.path, r.checksum>> : r \in rows }

\* ---------------------------------------------------------- Change Detector
\* Variant: a file counts as tracked as soon as its path is stored.
IsTrackedByPath(path, checksum, snapshot) == \E pr \in snapshot : pr[1] = path

\* `(file_path, checksum) in tracked_files`
IsTracked(path, checksum, snapshot) == <<path, checksum>> \in snapshot

\* Variant: _update_file_metadata is called whatever the batch holds.
AlwaysPersist(pending) == TRUE

\* `if new_files:`
ShouldPersist(pending) == pending # <<>>

\* The element appended to new_files for a regular file.
Pending(path, e) ==
    [ path          |-> path,
      file_size     |-> getsize(e.content),
      checksum      |-> calculate_checksum(e.content),
      last_modified |-> fromtimestamp(e.mtime) ]

Listed(d) == { p \in Paths : d[p] # Absent }

\* os.walk is top-down: the files of a directory are yielded before those of
\* its subdirectories; the order inside one directory is the OS's.
WalkNext(p) == p \in todo /\ \A q \in todo : Len(q) >= Len(p)

Init ==
    /\ dir = [p \in Paths |-> Absent]
    /\ store = {}
    /\ seq = 0
    /\ pc = "idle"
    /\ tracked = {}
    /\ new_files = <<>>
    /\ todo = {}
    /\ txn = [rows |-> {}, seq |-> 0]
    /\ idx = 1
    /\ pre = [rows |-> {}, seq |-> 0]
    /\ batch = <<>>
    /\ writes = 0
    /\ idLog = <<>>
    /\ txnLog = <<>>
    /\ change = NoChange

\* ------------------------------------------- the directory between passes
Touch(c) == IF change.op = "none" THEN c
            ELSE [op |-> "many", path |-> <<>>, to |-> <<>>, old |-> <<>>]

CreateFile(p, e) ==
    /\ pc = "idle"
    /\ dir[p] = Absent
    /\ e # Absent
    /\ dir' = [dir EXCEPT ![p] = e]
    /\ change' = Touch([op |-> "other", path |-> <<>>, to |-> <<>>, old |-> <<>>])
    /\ UNCHANGED <<store, seq, pc, idLog, passVars>>

ModifyFile(p, c, m) ==
    /\ pc = "idle"
    /\ dir[p].kind = "file"
    /\ c # dir[p].content
    /\ dir' = [dir EXCEPT ![p] = Regular(c, m)]
    /\ change' = Touch([op |-> "modify", path |-> p, to |-> <<>>,
                        old |-> dir[p].content])
    /\ UNCHANGED <<store, seq, pc, idLog, passVars>>

RenameFile(p, q) ==
    /\ pc = "idle"
    /\ dir[p].kind = "file"
    /\ dir[q] = Absent
    /\ dir' = [dir EXCEPT ![p] = Absent, ![q] = dir[p]]
    /\ change' = Touch([op |-> "rename", path |-> p, to |-> q, old |-> <<>>])
    /\ UNCHANGED <<store, seq, pc, idLog, passVars>>

DeleteFile(p) ==
    /\ pc = "idle"
    /\ dir[p] # Absent
    /\ dir' = [dir EXCEPT ![p] = Absent]
    /\ change' = Touch([op |-> "other", path |-> <<>>, to |-> <<>>, old |-> <<>>])
    /\ UNCHANGED <<store, seq, pc, idLog, passVars>>

\* ------------------------------------------------------ check_for_new_files
\* Lines 86-91: load the snapshot, start with an empty batch, list the tree.
Start ==
    /\ pc = "idle"
    /\ seq + Cardinality(Listed(dir)) <= MaxId
    /\ tracked' = get_tracked_files(store)
    /\ new_files' = <<>>
    /\ todo' = Listed(dir)
    /\ pre' = [rows |-> store, seq |-> seq]
    /\ batch' = <<>>
    /\ writes' = 0
    /\ txn' = [rows |-> store, seq |-> seq]
    /\ idx' = 1
    /\ txnLog' = <<>>
    /\ pc' = "walk"
    /\ UNCHANGED <<dir, store, seq, idLog, change>>

\* Lines 92-109: one iteration of the inner loop.
VisitFile(p) ==
    /\ pc = "walk"
    /\ WalkNext(p)
    /\ LET e == dir[p] IN
       CASE e.kind = "nonregular" ->
              \* `if not os.path.isfile(file_path): continue`
              /\ todo' = todo \ {p}
              /\ UNCHANGED <<new_files, pc, tracked, txn>>
         [] e.kind = "unreadable" ->
              \* open() raises inside calculate_checksum and nothing catches
              \* it: the exception leaves check_for_new_files, its locals die
              /\ pc' = "aborted"
              /\ tracked' = {}
              /\ new_files' = <<>>
              /\ todo' = {}
              /\ txn' = [rows |-> {}, seq |-> 0]
         [] OTHER ->
              /\ todo' = todo \ {p}
              /\ new_files' =
                   IF IsTracked(p, calculate_checksum(e.content), tracked)
                   THEN new_files
                   ELSE Append(new_files, Pending(p, e))
              /\ UNCHANGED <<pc, tracked, txn>>
    /\ UNCHANGED <<dir, store, seq, idx, pre, batch, writes,
                   idLog, txnLog, change>>

\* Lines 111-115: after the walk.
FinishWalk ==
    /\ pc = "walk"
    /\ todo = {}
    /\ IF ShouldPersist(new_files)
       THEN /\ pc' = "update"
            /\ writes' = writes + 1
            /\ batch' = new_files
       ELSE /\ pc' = "done"
            /\ UNCHANGED <<writes, batch>>
    /\ UNCHANGED <<dir, store, seq, tracked, new_files, todo, txn, idx, pre,
                   idLog, txnLog, change>>

\* ---------------------------------------------------- _update_file_metadata
\* Lines 125-133: one iteration of the loop.
Execute ==
    /\ pc = "update"
    /\ idx <= Len(batch)
    /\ LET t == UpsertOne(txn, batch[idx])
           d == AfterExecute([rows |-> store, seq |-> seq], t)
       IN  /\ txn' = t
           /\ txnLog' = Append(txnLog, t.seq)
           /\ store' = d.rows
           /\ seq' = d.seq
    /\ idx' = idx + 1
    /\ UNCHANGED <<dir, pc, tracked, new_files, todo, pre, batch, writes,
                   idLog, change>>

\* Line 135: conn.commit()
Commit ==
    /\ pc = "update"
    /\ idx > Len(batch)
    /\ store' = txn.rows
    /\ seq' = txn.seq
    /\ idLog' = idLog \o txnLog
    /\ txnLog' = <<>>
    /\ pc' = "done"
    /\ UNCHANGED <<dir, tracked, new_files, todo, txn, idx, pre, batch, writes,
                   change>>

\* cursor.execute or conn.commit raises: the exception leaves the method, the
\* connection is dropped without commit and SQLite rolls the transaction back.
ExecFail ==
    /\ pc = "update"
    /\ pc' = "failed"
    /\ tracked' = {}
    /\ new_files' = <<>>
    /\ todo' = {}
    /\ txn' = [rows |-> {}, seq |-> 0]
    /\ txnLog' = <<>>
    /\ UNCHANGED <<dir, store, seq, idx, pre, batch, writes, idLog, change>>

\* The process is killed during a pass; the journal undoes what was not
\* committed.
Kill ==
    /\ pc \in {"walk", "update"}
    /\ pc' = "killed"
    /\ tracked' = {}
    /\ new_files' = <<>>
    /\ todo' = {}
    /\ txn' = [rows |-> {}, seq |-> 0]
    /\ txnLog' = <<>>
    /\ UNCHANGED <<dir, store, seq, idx, pre, batch, writes, idLog, change>>

\* The pass is over (returned or raised); the next one may start.
Return ==
    /\ pc \in {"done", "aborted", "failed", "killed"}
    /\ pc' = "idle"
    /\ change' = IF pc = "done" THEN NoChange ELSE change
    \* the locals of the pass and its connection are gone
    /\ tracked' = {}
    /\ new_files' = <<>>
    /\ todo' = {}
    /\ txn' = [rows |-> {}, seq |-> 0]
    /\ idx' = 1
    /\ pre' = [rows |-> {}, seq |-> 0]
    /\ batch' = <<>>
    /\ writes' = 0
    /\ txnLog' = <<>>
    /\ UNCHANGED <<dir, store, seq, idLog>>

Next ==
    \/ \E p \in Paths, e \in Entries : CreateFile(p, e)
    \/ \E p \in Paths, c \in Contents, m \in 1..MaxMtime : ModifyFile(p, c, m)
    \/ \E p \in Paths, q \in Paths : RenameFile(p, q)
    \/ \E p \in Paths : DeleteFile(p)
    \/ Start
    \/ \E p \in Paths : VisitFile(p)
    \/ FinishWalk
    \/ Execute
    \/ Commit
    \/ ExecFail
    \/ Kill
    \/ Return

Spec == Init /\ [][Next]_vars

TypeOK ==
    /\ dir \in [Paths -> Entries]
    /\ seq \in 0..MaxId
    /\ pc \in {"idle", "walk", "update", "done", "aborted", "failed", "killed"}
    /\ todo \subseteq Paths
    /\ writes \in 0..1

\* ------------------------------------------------------------- properties
InPass == pc \in {"walk", "update", "done"}

ChecksumAt(p) == calculate_checksum(dir[p].content)

RowsWith(rows, checksum) == { r \in rows : r.checksum = checksum }

RegularFiles == { p \in Paths : dir[p].kind = "file" }

\* C1: a pass over a directory that did not change since the last completed
\* pass persists nothing: its pending batch stays empty and
\* _update_file_metadata is not called.
C1_SecondRunPersistsNothing ==
    (InPass /\ change.op = "none") => (new_files = <<>> /\ writes = 0)

\* C2: no two rows of file_metadata (committed, or inside the open
\* transaction) have the same checksum, and after the INSERT OR REPLACE of a
\* record exactly one row has its checksum, carrying the record's filename,
\* path, file_size and (UTC-tagged) last_modified.
C2_UniqueChecksum ==
    /\ \A r1 \in store, r2 \in store : r1.checksum = r2.checksum => r1 = r2
    /\ \A r1 \in txn.rows, r2 \in txn.rows : r1.checksum = r2.checksum => r1 = r2
    /\ (pc = "update" /\ idx > 1) =>
         LET rec == batch[idx - 1]
             hit == RowsWith(txn.rows, rec.checksum)
         IN  /\ Cardinality(hit) = 1
             /\ \A r \in hit :
                  /\ r.path = rec.path
                  /\ r.filename = rec.path[Len(rec.path)]
                  /\ r.file_size = rec.file_size
                  /\ r.last_modified.t = rec.last_modified.t
                  /\ r.last_modified.tzinfo = "UTC"

\* C2 witness: a record whose checksum was already stored, under another path
\* and modification time, has just been upserted.
C2_Witness ==
    /\ pc = "update"
    /\ idx > 1
    /\ \E r \in pre.rows :
         /\ r.checksum = batch[idx - 1].checksum
         /\ r.path # batch[idx - 1].path
         /\ r.last_modified.t # batch[idx - 1].last_modified.t

\* The only change since the last completed pass is that the content of the
\* file at change.path was modified, and the (path, old checksum) pair is in
\* the store.
ModifiedTracked ==
    /\ pc = "done"
    /\ change.op = "modify"
    /\ <<change.path, calculate_checksum(change.old)>> \in get_tracked_files(pre.rows)

\* What C3 promises of the pass after the modification.
NewInsertedOldKept ==
    LET new == ChecksumAt(change.path)
        old == calculate_checksum(change.old)
    IN  /\ \E r \in store \ pre.rows : r.checksum = new /\ r.path = change.path
        /\ RowsWith(store, old) = RowsWith(pre.rows, old)
        /\ Cardinality(store) = Cardinality(pre.rows) + 1

\* C3 as stated: after a tracked file's content was modified under the same
\* path, the next pass inserts a row for the new checksum, leaves the row of
\* the old checksum untouched and the table grows by exactly one row.
C3_Original == ModifiedTracked => NewInsertedOldKept

\* The new checksum is in no stored row and every other regular file of the
\* directory is tracked.
NewContentOnlyPending ==
    /\ RowsWith(pre.rows, ChecksumAt(change.path)) = {}
    /\ \A q \in RegularFiles \ {change.path} :
         <<q, ChecksumAt(q)>> \in get_tracked_files(pre.rows)

\* C3 amended: the same, provided the new checksum is in no stored row and
\* every other regular file of the directory is tracked.
C3_Amended == (ModifiedTracked /\ NewContentOnlyPending) => NewInsertedOldKept

\* C3 witness: such a pass has completed.
C3_Witness == ModifiedTracked /\ NewContentOnlyPending /\ writes = 1

\* C4: after a file whose checksum is stored was renamed, the next pass does
\* not put it in the pending batch and leaves the row of its checksum as it
\* was.
C4_RenameNotRerecorded ==
    (InPass /\ change.op = "rename"
       /\ RowsWith(pre.rows, ChecksumAt(change.to)) # {}) =>
         /\ \A i \in 1..Len(new_files) : new_files[i].path # change.to
         /\ pc = "done" =>
              RowsWith(store, ChecksumAt(change.to))
                = RowsWith(pre.rows, ChecksumAt(change.to))

\* Exactly one entry of the directory is unreadable, the others are regular
\* files (at least one), none of them tracked.
OneUnreadableAmongUntracked ==
    /\ Cardinality({ p \in Paths : dir[p] = Unreadable }) = 1
    /\ RegularFiles # {}
    /\ \A p \in Paths : dir[p] = Unreadable \/ dir[p].kind = "file"
    /\ \A p \in RegularFiles : <<p, ChecksumAt(p)>> \notin get_tracked_files(pre.rows)

\* C5: with one unreadable file among readable untracked ones, the failure to
\* read does not end the pass, and the completed pass has stored every
\* readable file.
C5_SkipUnreadable ==
    (pc # "idle" /\ OneUnreadableAmongUntracked) =>
        /\ pc # "aborted"
        /\ pc = "done" =>
             \A p \in RegularFiles :
                 \E r \in store : r.checksum = ChecksumAt(p)

\* C6: whatever happens to a pass (failure of an execute or of the commit,
\* kill of the process), the committed table and its rowid counter are either
\* those from before the pass or those with the whole batch applied.
C6_BatchAtomic ==
    pc # "idle" =>
        LET after == UpsertAll(pre, batch)
        IN  \/ store = pre.rows /\ seq = pre.seq
            \/ store = after.rows /\ seq = after.seq

\* C6 witness: _update_file_metadata died after executing a proper, non-empty
\* prefix of its batch and the table is as before the pass.
C6_Witness ==
    /\ pc \in {"failed", "killed"}
    /\ idx > 1
    /\ idx <= Len(batch)
    /\ store = pre.rows

\* C7: a (path, checksum) pair that get_tracked_files returns is returned in
\* every later state of the store.
C7_PairsNeverLost ==
    [][get_tracked_files(store) \subseteq get_tracked_files(store')]_vars

\* C8: the rowids of the committed inserts followed by those of the open
\* transaction are strictly increasing (no rowid is handed out twice, each is
\* above all before it), replacing inserts included, and every row carries
\* the rowid of one insert.
C8_IdsIncrease ==
    LET log == idLog \o txnLog
    IN  /\ \A i \in 1..Len(log), j \in 1..Len(log) : i < j => log[i] < log[j]
        /\ \A r \in store : \E i \in 1..Len(idLog) : idLog[i] = r.id
        /\ \A r1 \in store, r2 \in store : r1.id = r2.id => r1 = r2

\* C8 witness: a row was replaced (its rowid is gone from the table) and a
\* later insert has been committed.
C8_Witness ==
    /\ Len(idLog) >= 3
    /\ \E i \in 1..(Len(idLog) - 1) : \A r \in store : r.id # idLog[i]
    /\ pc = "done"

\* C9: the snapshot is taken only when the pass starts; the table changes
\* only in a pass whose walk is over, in one step, to the table with the
\* whole batch applied; _update_file_metadata is called at most once, after
\* the walk, with the whole non-empty batch; a pass completes with a call
\* exactly if its batch is non-empty, and without one it leaves the table as
\* it was.
C9_Ordering ==
    [][ /\ (tracked' # tracked /\ tracked' # {}) =>
             (pc = "idle" /\ tracked' = get_tracked_files(store))
        /\ store' # store =>
             /\ pc = "update" /\ todo = {} /\ writes = 1
             /\ store' = UpsertAll(pre, new_files).rows
        /\ writes' > writes =>
             /\ writes' = 1 /\ pc = "walk" /\ todo = {}
             /\ new_files # <<>> /\ batch' = new_files
        /\ (pc' = "done" /\ pc # "done") =>
             /\ writes' = 1 <=> new_files # <<>>
             /\ writes' = 0 => store' = pre.rows
      ]_vars

\* C9 witness: a pass that started from a non-empty snapshot has completed
\* with one call carrying a batch of two records.
C9_Witness ==
    /\ pc = "done"
    /\ tracked # {}
    /\ writes = 1
    /\ Len(batch) = 2
    /\ store # pre.rows

\* C10: when a pass has completed, the table has a row with the checksum of
\* every regular file of the directory.
C10_Coverage ==
    pc = "done" =>
        \A p \in RegularFiles : \E r \in store : r.checksum = ChecksumAt(p)

\* C10 witness: a completed pass over a directory with two files of equal
\* content and a file whose path was stored with another checksum.
C10_Witness ==
    /\ pc = "done"
    /\ \E p \in RegularFiles, q \in RegularFiles :
         p # q /\ ChecksumAt(p) = ChecksumAt(q)
    /\ \E p \in RegularFiles, r \in pre.rows :
         r.path = p /\ r.checksum # ChecksumAt(p)
====
